---- MODULE Spec2Model ----
(***************************************************************************)
(* Verification model of the datto-rmm MCP server core:                    *)
(*   - OAuthTokenManager (token cache, proactive refresh, single flight),  *)
(*   - the auth middleware that calls it for every backing request,        *)
(*   - the /mcp session registry of the Streamable HTTP server,            *)
(*   - the pure helpers getTokenEndpoint and normalizePagination.          *)
(*                                                                         *)
(* Time is in milliseconds, as Date.now(); server ttls are in seconds.     *)
(* A token value is identified with the exchange that issued it (the       *)
(* token endpoint hands out a new access_token per exchange).              *)
(***************************************************************************)
EXTENDS Integers, FiniteSets, Sequences, TLC

\* ------------------------------------------------------------- bounds
MaxCalls == 2
MaxExchanges == 2
MaxTicks == 2
MaxRequests == 2
MaxTransports == 2

\* null / undefined of the source (token: string | null = null)
NULL == 0

CallIds == 1..MaxCalls
ExchangeIds == 1..MaxExchanges
\* the connections on which requests on /mcp arrive, one at a time each
RequestIds == 1..MaxRequests
TransportIds == 1..MaxTransports
\* the values an Mcp-Session-Id may take (what crypto.randomUUID() may return)
SessionIds == 1..MaxTransports

\* expires_in values (seconds) the token endpoint may declare
TTLs == {0, 60, 3600}
\* amounts of time (ms) that may pass between two events: 1 min, 55 min
Delays == {60 * 1000, 55 * 60 * 1000}

VARIABLES
  token,          \* OAuthTokenManager.token (NULL or the access token)
  expiresAt,      \* OAuthTokenManager.expiresAt (ms)
  refreshPromise, \* OAuthTokenManager.refreshPromise (NULL or the exchange awaited)
  now,            \* Date.now()
  ticks,          \* number of clock advances so far
  exch,           \* the refreshToken() invocations: one fetch each
  calls,          \* the getToken() invocations
  afterClear,     \* clearToken() has returned and no getToken() was issued since
  transports,     \* the Map<string, StreamableHTTPServerTransport> of createHttpServer
  tr,             \* the StreamableHTTPServerTransport objects created so far
  reqs,           \* the requests on /mcp being handled, one per connection
  last,           \* the request on /mcp just handled, until its response is out
  api,            \* a call to the backing API made through the auth middleware
  endpointCall,   \* the last call of getTokenEndpoint: argument and result
  urlCall,        \* the last call of getPlatformUrl: argument and result
  pageCall        \* the last call of normalizePagination: argument and result

tokenVars == <<token, expiresAt, refreshPromise, now, ticks, exch, calls, afterClear>>

httpVars == <<transports, tr, reqs, last>>

clientVars == <<api>>

utilVars == <<endpointCall, urlCall, pageCall>>

\* what the token manager's own steps leave alone, and the registry's, the
\* middleware's, the pure helpers'
notTokenVars == <<httpVars, clientVars, utilVars>>

notHttpVars == <<tokenVars, clientVars, utilVars>>

notClientVars == <<tokenVars, httpVars, utilVars>>

notUtilVars == <<tokenVars, httpVars, clientVars>>

vars == <<tokenVars, httpVars, clientVars, utilVars>>

\* ------------------------------------------------------ OAuthTokenManager

bufferMs == 5 * 60 * 1000

\* mutant: the freshness margin is forgotten
TokenStillValidNoBuffer == token # NULL /\ now < expiresAt

\* getToken's test for the cached fast path
TokenStillValid == token # NULL /\ now < expiresAt - bufferMs

\* a token is cached and its expiresAt has not been reached: what a call
\* that suspends on a refresh had at hand when it was issued (hadToken,
\* kept while the call is suspended)
HasUnexpiredToken == token # NULL /\ now < expiresAt

\* mutant: concurrent refreshes are not deduplicated
RefreshInFlightIgnored == FALSE

\* getToken's test for a refresh to join: if (this.refreshPromise)
RefreshInFlight == refreshPromise # NULL

NoResult == [kind |-> "none", val |-> NULL]

\* what a settled refreshToken() promise delivers: its token, or its error
Outcome(e) ==
  IF exch[e].st = "ok" THEN [kind |-> "tok", val |-> e]
  ELSE [kind |-> "err", val |-> e]

\* the token of exchange e is handed out at or after its expiresAt; the
\* reactions of a settled refresh run before anything else touches the
\* cache, so the cache still holds what e stored
Expired(e) == exch[e].st = "ok" /\ token = e /\ now >= expiresAt

Settled(e) == exch[e].st \in {"ok", "failed"}

\* getToken() invocations suspended on a refresh
Pending == {c \in CallIds : calls[c].pc \in {"await", "joined"}}

\* a settled refresh still has continuations to run (promise reactions run
\* to completion before the event loop takes the next task)
Delivering == \E c \in Pending : Settled(calls[c].e)

FreeExchange(e) ==
  /\ exch[e].st = "unused"
  /\ \A f \in ExchangeIds : f < e => exch[f].st # "unused"

NextCall(c) ==
  /\ calls[c].pc = "new"
  /\ \A d \in CallIds : d < c => calls[d].pc # "new"

\* the middleware is inside its synchronous call of getToken(): no other
\* task of the event loop runs before that call has been issued
Calling == api.pc = "token" /\ calls[api.c].pc = "new"

TokenInit ==
  /\ token = NULL
  /\ expiresAt = 0
  /\ refreshPromise = NULL
  /\ now = 0
  /\ ticks = 0
  /\ exch = [e \in ExchangeIds |->
               [st |-> "unused", via |-> "none"]]
  /\ calls = [c \in CallIds |->
               [pc |-> "new", e |-> NULL, res |-> NoResult, expired |-> FALSE,
                started |-> FALSE, pend |-> {}, postClear |-> FALSE,
                hadToken |-> FALSE]]
  /\ afterClear = FALSE

\* refreshToken() up to `await fetch(...)`: the network call is out
StartExchange(e, by) ==
  exch' = [exch EXCEPT ![e] = [@ EXCEPT !.st = "pending", !.via = by]]

\* getToken(), cached fast path
GetTokenCached(c) ==
  /\ NextCall(c)
  /\ ~Delivering
  /\ TokenStillValid
  /\ calls' = [calls EXCEPT ![c] =
                 [@ EXCEPT !.pc = "done",
                           !.res = [kind |-> "tok", val |-> token],
                           !.expired = (now >= expiresAt), !.pend = Pending,
                           !.postClear = afterClear]]
  /\ afterClear' = FALSE
  /\ UNCHANGED <<token, expiresAt, refreshPromise, now, ticks, exch>>
  /\ UNCHANGED notTokenVars

\* getToken(), a refresh is in flight: return this.refreshPromise
GetTokenJoin(c) ==
  /\ NextCall(c)
  /\ ~Delivering
  /\ ~TokenStillValid
  /\ RefreshInFlight
  /\ calls' = [calls EXCEPT ![c] =
                 [@ EXCEPT !.pc = "joined", !.e = refreshPromise,
                           !.pend = Pending, !.postClear = afterClear,
                           !.hadToken = HasUnexpiredToken]]
  /\ afterClear' = FALSE
  /\ UNCHANGED <<token, expiresAt, refreshPromise, now, ticks, exch>>
  /\ UNCHANGED notTokenVars

\* getToken(), no refresh in flight: this.refreshPromise = this.refreshToken()
GetTokenRefresh(c) ==
  /\ NextCall(c)
  /\ ~Delivering
  /\ ~TokenStillValid
  /\ ~RefreshInFlight
  /\ \E e \in ExchangeIds :
       /\ FreeExchange(e)
       /\ StartExchange(e, "getToken")
       /\ refreshPromise' = e
       /\ calls' = [calls EXCEPT ![c] =
                      [@ EXCEPT !.pc = "await", !.e = e, !.started = TRUE,
                                !.pend = Pending, !.postClear = afterClear,
                                !.hadToken = HasUnexpiredToken]]
  /\ afterClear' = FALSE
  /\ UNCHANGED <<token, expiresAt, now, ticks>>
  /\ UNCHANGED notTokenVars

\* mutant: the direct call publishes its refresh as the in-flight marker
RefreshTokenDirectMarked ==
  /\ ~Delivering
  /\ ~Calling
  /\ \E e \in ExchangeIds :
       /\ FreeExchange(e)
       /\ StartExchange(e, "direct")
       /\ refreshPromise' = e
  /\ UNCHANGED <<token, expiresAt, now, ticks, calls, afterClear>>
  /\ UNCHANGED notTokenVars

\* a direct call of the public refreshToken()
RefreshTokenDirect ==
  /\ ~Delivering
  /\ ~Calling
  /\ \E e \in ExchangeIds :
       /\ FreeExchange(e)
       /\ StartExchange(e, "direct")
  /\ UNCHANGED <<token, expiresAt, refreshPromise, now, ticks, calls, afterClear>>
  /\ UNCHANGED notTokenVars

\* the cache after a successful exchange e with server ttl (seconds)
StoreToken(e, ttl) ==
  /\ token' = e
  /\ expiresAt' = now + ttl * 1000

\* refreshToken(): response.ok, the token and its expiry are stored
ExchangeSucceed(e) ==
  /\ ~Delivering
  /\ ~Calling
  /\ exch[e].st = "pending"
  /\ \E ttl \in TTLs :
       /\ StoreToken(e, ttl)
       /\ exch' = [exch EXCEPT ![e] = [@ EXCEPT !.st = "ok"]]
  /\ UNCHANGED <<refreshPromise, now, ticks, calls, afterClear>>
  /\ UNCHANGED notTokenVars

\* mutant: a failed refresh evicts the cached token
FailedCacheEvicted == [token |-> NULL, expiresAt |-> 0]

\* the cache after a failed exchange: refreshToken() throws before any write
FailedCache == [token |-> token, expiresAt |-> expiresAt]

\* refreshToken(): !response.ok (or fetch rejects), the call throws
ExchangeFail(e) ==
  /\ ~Delivering
  /\ ~Calling
  /\ exch[e].st = "pending"
  /\ exch' = [exch EXCEPT ![e] = [@ EXCEPT !.st = "failed"]]
  /\ token' = FailedCache.token
  /\ expiresAt' = FailedCache.expiresAt
  /\ UNCHANGED <<refreshPromise, now, ticks, calls, afterClear>>
  /\ UNCHANGED notTokenVars

\* mutant: the finally block is missing, the marker outlives its refresh
MarkerAfterRefreshKept == refreshPromise

\* finally { this.refreshPromise = null }
MarkerAfterRefresh == NULL

\* getToken() of the initiator resumes after `await this.refreshPromise`:
\* the finally block clears the marker, the call returns or rethrows
GetTokenResume(c) ==
  /\ calls[c].pc = "await"
  /\ Settled(calls[c].e)
  /\ refreshPromise' = MarkerAfterRefresh
  /\ calls' = [calls EXCEPT ![c] =
                 [@ EXCEPT !.pc = "done", !.res = Outcome(calls[c].e),
                           !.expired = Expired(calls[c].e), !.hadToken = FALSE]]
  /\ UNCHANGED <<token, expiresAt, now, ticks, exch, afterClear>>
  /\ UNCHANGED notTokenVars

\* a call that returned this.refreshPromise adopts its outcome; its reaction
\* was registered after the initiator's await, so it runs after the finally
GetTokenJoined(c) ==
  /\ calls[c].pc = "joined"
  /\ Settled(calls[c].e)
  /\ refreshPromise # calls[c].e
  /\ calls' = [calls EXCEPT ![c] =
                 [@ EXCEPT !.pc = "done", !.res = Outcome(calls[c].e),
                           !.expired = Expired(calls[c].e), !.hadToken = FALSE]]
  /\ UNCHANGED <<token, expiresAt, refreshPromise, now, ticks, exch, afterClear>>
  /\ UNCHANGED notTokenVars

\* mutant: the invalidation also drops the in-flight marker
ClearTokenAndMarker ==
  /\ ~Delivering
  /\ ~Calling
  /\ token' = NULL
  /\ expiresAt' = 0
  /\ refreshPromise' = NULL
  /\ afterClear' = TRUE
  /\ UNCHANGED <<now, ticks, exch, calls>>
  /\ UNCHANGED notTokenVars

\* clearToken()
ClearToken ==
  /\ ~Delivering
  /\ ~Calling
  /\ token' = NULL
  /\ expiresAt' = 0
  /\ afterClear' = TRUE
  /\ UNCHANGED <<refreshPromise, now, ticks, exch, calls>>
  /\ UNCHANGED notTokenVars

\* time passes between two tasks of the event loop
Tick ==
  /\ ~Delivering
  /\ ~Calling
  /\ ticks < MaxTicks
  /\ \E d \in Delays : now' = now + d
  /\ ticks' = ticks + 1
  /\ UNCHANGED <<token, expiresAt, refreshPromise, exch, calls, afterClear>>
  /\ UNCHANGED notTokenVars

TokenNext ==
  \/ \E c \in CallIds : GetTokenCached(c)
  \/ \E c \in CallIds : GetTokenJoin(c)
  \/ \E c \in CallIds : GetTokenRefresh(c)
  \/ \E c \in CallIds : GetTokenResume(c)
  \/ \E c \in CallIds : GetTokenJoined(c)
  \/ RefreshTokenDirect
  \/ \E e \in ExchangeIds : ExchangeSucceed(e)
  \/ \E e \in ExchangeIds : ExchangeFail(e)
  \/ ClearToken
  \/ Tick

\* ----------------------------------------------------- auth middleware
\* The middleware created from toAuthConfig() (./middleware.js): it calls
\* getToken() for every backing request and, on an authentication rejection,
\* invalidates the cache and retries once.

NoApiCall ==
  [pc |-> "idle", c |-> NULL, requests |-> 0, rejections |-> 0, result |-> "none",
   started |-> FALSE]

ClientInit == api = NoApiCall

\* call(request): the middleware asks the token manager for a token; the
\* getToken() invocation it makes is the next one issued
ApiCall ==
  /\ api.pc = "idle"
  /\ ~Delivering
  /\ \E c \in CallIds :
       /\ NextCall(c)
       /\ api' = [api EXCEPT !.pc = "token", !.c = c]
  /\ UNCHANGED notClientVars

\* getToken() has resolved: the token is attached as a bearer credential
\* and the backing request goes out (started: that getToken() began the
\* exchange its token comes from)
ApiSend ==
  /\ api.pc = "token"
  /\ calls[api.c].pc = "done"
  /\ calls[api.c].res.kind = "tok"
  /\ api' = [api EXCEPT !.pc = "request", !.requests = @ + 1,
                        !.started = calls[api.c].started]
  /\ UNCHANGED notClientVars

\* getToken() has rejected: the refresh error is the call's error
ApiTokenError ==
  /\ api.pc = "token"
  /\ calls[api.c].pc = "done"
  /\ calls[api.c].res.kind = "err"
  /\ api' = [api EXCEPT !.pc = "done", !.result = "authFetchError"]
  /\ UNCHANGED notClientVars

\* the backing API answers the request
ApiOk ==
  /\ api.pc = "request"
  /\ api' = [api EXCEPT !.pc = "done", !.result = "ok"]
  /\ UNCHANGED notClientVars

\* the backing API fails otherwise: surfaced, not retried
ApiFailed ==
  /\ api.pc = "request"
  /\ api' = [api EXCEPT !.pc = "done", !.result = "apiError"]
  /\ UNCHANGED notClientVars

\* first authentication rejection: clearToken(), then getToken() again
ApiRejectedRetry ==
  /\ api.pc = "request"
  /\ api.rejections = 0
  /\ ~Delivering
  /\ \E c \in CallIds :
       /\ NextCall(c)
       /\ api' = [api EXCEPT !.pc = "token", !.c = c, !.rejections = 1]
  /\ token' = NULL
  /\ expiresAt' = 0
  /\ afterClear' = TRUE
  /\ UNCHANGED <<refreshPromise, now, ticks, exch, calls>>
  /\ UNCHANGED <<httpVars, utilVars>>

\* second authentication rejection: ApiError{authExpired}, no further retry
ApiRejectedFinal ==
  /\ api.pc = "request"
  /\ api.rejections = 1
  /\ api' = [api EXCEPT !.pc = "done", !.rejections = 2, !.result = "authExpired"]
  /\ UNCHANGED notClientVars

\* a getToken() invocation that has resolved and whose caller has taken the
\* result is over: another caller may invoke getToken()
GetTokenReturned(c) ==
  /\ calls[c].pc = "done"
  /\ api.pc = "token" => api.c # c
  /\ ~Delivering
  /\ ~Calling
  /\ calls' = [calls EXCEPT ![c] =
                 [pc |-> "new", e |-> NULL, res |-> NoResult, expired |-> FALSE,
                  started |-> FALSE, pend |-> {}, postClear |-> FALSE,
                  hadToken |-> FALSE]]
  /\ UNCHANGED <<token, expiresAt, refreshPromise, now, ticks, exch, afterClear>>
  /\ UNCHANGED notTokenVars

ClientNext ==
  \/ TokenNext
  \/ \E c \in CallIds : GetTokenReturned(c)
  \/ ApiCall
  \/ ApiSend
  \/ ApiTokenError
  \/ ApiOk
  \/ ApiFailed
  \/ ApiRejectedRetry
  \/ ApiRejectedFinal

\* ------------------------------------------------ /mcp session registry

\* Map.prototype.has / get / set / delete
MapHas(m, k) == k \in DOMAIN m

MapSet(m, k, v) == [x \in DOMAIN m \cup {k} |-> IF x = k THEN v ELSE m[x]]

\* mutant: deleting an absent key disturbs the map
MapDeleteStrict(m, k) ==
  IF k \in DOMAIN m THEN [x \in DOMAIN m \ {k} |-> m[x]] ELSE << >>

MapDelete(m, k) == [x \in DOMAIN m \ {k} |-> m[x]]

\* mutant: a generator that may hand out an id again
sessionIdGeneratorRepeating == SessionIds

\* sessionIdGenerator: crypto.randomUUID() never returns an id it returned
\* before; ids are opaque, so the next unused one stands for any fresh id
sessionIdGenerator ==
  {i \in SessionIds :
     /\ \A t \in TransportIds : tr[t].sessionId # i
     /\ \A j \in SessionIds :
          j < i => \E t \in TransportIds : tr[t].sessionId = j}

\* mutant: the id is handed out without being registered
onsessioninitializedUnregistered(id, t) == transports

\* onsessioninitialized: transports.set(id, transport)
onsessioninitialized(id, t) == MapSet(transports, id, t)

\* mutant: the close callback leaves the entry in place
oncloseKeepsEntry(t) == transports

\* transport.onclose: the registry once the callback has run
onclose(t) ==
  IF tr[t].sessionId # NULL THEN MapDelete(transports, tr[t].sessionId)
  ELSE transports

\* if (sessionId && transports.has(sessionId))
KnownSession(hdr) == hdr # NULL /\ MapHas(transports, hdr)

\* the id belongs to a session whose transport has reported closure
ClosedSession(hdr) ==
  hdr # NULL /\ \E t \in TransportIds : tr[t].st = "closed" /\ tr[t].sessionId = hdr

\* a connection is free to carry a request; connections are interchangeable,
\* so a request arrives on the first free one
NextRequest(r) ==
  /\ reqs[r].pc = "idle"
  /\ \A q \in RequestIds : q < r => reqs[q].pc # "idle"

FreeTransport(t) ==
  /\ tr[t].st = "unused"
  /\ \A u \in TransportIds : u < t => tr[u].st # "unused"

NoRequest ==
  [method |-> "none", hdr |-> NULL, init |-> FALSE, pc |-> "idle",
   t |-> NULL, status |-> 0, sent |-> FALSE, sess |-> "none", created |-> NULL]

\* what the Mcp-Session-Id of an arriving request refers to: no header, a
\* registered session, a session whose transport reported closure, or an
\* id the registry does not hold for another reason
SessionOf(hdr) ==
  IF hdr = NULL THEN "none"
  ELSE IF KnownSession(hdr) THEN "known"
  ELSE IF ClosedSession(hdr) THEN "closed"
  ELSE "unknown"

\* what is left of a handled request: how it was answered (status 0: not at
\* all), and whether its handler's promise rejected with nobody catching
Finished(q, code, rejected) ==
  [method |-> q.method, sess |-> q.sess, status |-> code, unhandled |-> rejected]

NoneFinished == Finished(NoRequest, 0, FALSE)

\* the response of the request just handled has left the server: writing it
\* out ends the event-loop turn in which the handler finished
Flushed == last = NoneFinished

HttpInit ==
  /\ transports = << >>
  /\ tr = [t \in TransportIds |-> [st |-> "unused", sessionId |-> NULL]]
  /\ reqs = [r \in RequestIds |-> NoRequest]
  /\ last = NoneFinished

\* a request arrives: its method and what the registry holds for its
\* Mcp-Session-Id at that moment; only the DELETE handler uses the header
\* again after the lookup
Arrive(m, hdr) ==
  [NoRequest EXCEPT !.method = m, !.sess = SessionOf(hdr),
                    !.hdr = IF m = "DELETE" THEN hdr ELSE NULL]

\* POST /mcp with a known session id: reuse the transport, await handleRequest
PostContinueStart(r) ==
  /\ Flushed
  /\ NextRequest(r)
  /\ \E hdr \in SessionIds :
       /\ KnownSession(hdr)
       /\ reqs' = [reqs EXCEPT ![r] =
                     [Arrive("POST", hdr) EXCEPT !.pc = "handling",
                                                 !.t = transports[hdr]]]
  /\ last' = NoneFinished
  /\ UNCHANGED <<transports, tr>>
  /\ UNCHANGED notHttpVars

\* POST /mcp otherwise: a new MCP server and transport are created and
\* connected, onclose is set, and the request is handed to the new transport
PostNewStart(r) ==
  /\ Flushed
  /\ NextRequest(r)
  /\ \E hdr \in SessionIds \cup {NULL}, isInit \in BOOLEAN, t \in TransportIds :
       /\ ~KnownSession(hdr)
       /\ FreeTransport(t)
       /\ tr' = [tr EXCEPT ![t] = [@ EXCEPT !.st = "open"]]
       /\ reqs' = [reqs EXCEPT ![r] =
                     [Arrive("POST", hdr) EXCEPT !.pc = "handling", !.t = t,
                                                 !.init = isInit, !.created = t]]
  /\ last' = NoneFinished
  /\ UNCHANGED transports
  /\ UNCHANGED notHttpVars

\* the new transport handles an initialize request: it draws its session id,
\* calls onsessioninitialized and starts the response with the id in a header
SessionInit(r) ==
  /\ Flushed
  /\ reqs[r].pc = "handling"
  /\ reqs[r].created # NULL
  /\ reqs[r].init
  /\ tr[reqs[r].t].sessionId = NULL
  /\ \E id \in sessionIdGenerator :
       /\ tr' = [tr EXCEPT ![reqs[r].t] = [@ EXCEPT !.sessionId = id]]
       /\ transports' = onsessioninitialized(id, reqs[r].t)
  /\ reqs' = [reqs EXCEPT ![r] = [@ EXCEPT !.sent = TRUE, !.status = 200]]
  /\ last' = NoneFinished
  /\ UNCHANGED notHttpVars

\* transport.handleRequest of a POST resolves: the transport has answered
\* (400 when a new transport is sent anything but an initialize request)
PostFinishOk(r) ==
  /\ Flushed
  /\ reqs[r].pc = "handling"
  /\ reqs[r].method = "POST"
  /\ reqs[r].created # NULL /\ reqs[r].init => reqs[r].sent
  /\ last' = Finished(reqs[r],
                      IF reqs[r].created # NULL /\ ~reqs[r].init THEN 400 ELSE 200,
                      FALSE)
  /\ reqs' = [reqs EXCEPT ![r] = NoRequest]
  /\ UNCHANGED <<transports, tr>>
  /\ UNCHANGED notHttpVars

\* transport.handleRequest of a POST throws: the catch block answers 500
\* unless the response has been started
PostFinishThrow(r) ==
  /\ Flushed
  /\ reqs[r].pc = "handling"
  /\ reqs[r].method = "POST"
  /\ last' = Finished(reqs[r], IF reqs[r].sent THEN reqs[r].status ELSE 500, FALSE)
  /\ reqs' = [reqs EXCEPT ![r] = NoRequest]
  /\ UNCHANGED <<transports, tr>>
  /\ UNCHANGED notHttpVars

\* GET or DELETE /mcp without a known session id: 400
RejectStart ==
  /\ Flushed
  /\ \E m \in {"GET", "DELETE"}, hdr \in SessionIds \cup {NULL} :
       /\ ~KnownSession(hdr)
       /\ last' = Finished(Arrive(m, hdr), 400, FALSE)
  /\ UNCHANGED <<transports, tr, reqs>>
  /\ UNCHANGED notHttpVars

\* GET or DELETE /mcp with a known session id: await transport.handleRequest
LookupStart(r) ==
  /\ Flushed
  /\ NextRequest(r)
  /\ \E m \in {"GET", "DELETE"}, hdr \in SessionIds :
       /\ KnownSession(hdr)
       /\ reqs' = [reqs EXCEPT ![r] =
                     [Arrive(m, hdr) EXCEPT !.pc = "handling",
                                            !.t = transports[hdr]]]
  /\ last' = NoneFinished
  /\ UNCHANGED <<transports, tr>>
  /\ UNCHANGED notHttpVars

\* the transport opens the push stream of a GET
GetFinishOk(r) ==
  /\ Flushed
  /\ reqs[r].pc = "handling"
  /\ reqs[r].method = "GET"
  /\ last' = Finished(reqs[r], 200, FALSE)
  /\ reqs' = [reqs EXCEPT ![r] = NoRequest]
  /\ UNCHANGED <<transports, tr>>
  /\ UNCHANGED notHttpVars

\* the promise of an async GET or DELETE handler rejects (the handlers have
\* no try/catch). What follows depends on the Express the server is built
\* with: the router passes the error to the global error handler, which
\* answers 500, or nobody handles the rejection and the request stays
\* unanswered
HandlerRejected(q) == {Finished(q, 500, FALSE), Finished(q, 0, TRUE)}

\* transport.handleRequest of a GET throws
GetFinishThrow(r) ==
  /\ Flushed
  /\ reqs[r].pc = "handling"
  /\ reqs[r].method = "GET"
  /\ last' \in HandlerRejected(reqs[r])
  /\ reqs' = [reqs EXCEPT ![r] = NoRequest]
  /\ UNCHANGED <<transports, tr>>
  /\ UNCHANGED notHttpVars

\* the registry after the DELETE handler's own transports.delete(sessionId)
DeleteHandlerRemoval(m, hdr) == MapDelete(m, hdr)

\* the transport handles a DELETE: it closes (onclose fires) and answers
\* 200; then the handler runs transports.delete(sessionId)
DeleteFinishOk(r) ==
  /\ Flushed
  /\ reqs[r].pc = "handling"
  /\ reqs[r].method = "DELETE"
  /\ tr' = [tr EXCEPT ![reqs[r].t] = [@ EXCEPT !.st = "closed"]]
  /\ transports' = DeleteHandlerRemoval(onclose(reqs[r].t), reqs[r].hdr)
  /\ last' = Finished(reqs[r], 200, FALSE)
  /\ reqs' = [reqs EXCEPT ![r] = NoRequest]
  /\ UNCHANGED notHttpVars

\* transport.handleRequest of a DELETE throws, before or after the transport
\* closed: the handler's transports.delete(sessionId) is not reached
DeleteFinishThrow(r) ==
  /\ Flushed
  /\ reqs[r].pc = "handling"
  /\ reqs[r].method = "DELETE"
  /\ \E closedFirst \in BOOLEAN :
       IF closedFirst
       THEN /\ tr' = [tr EXCEPT ![reqs[r].t] = [@ EXCEPT !.st = "closed"]]
            /\ transports' = onclose(reqs[r].t)
       ELSE UNCHANGED <<transports, tr>>
  /\ last' \in HandlerRejected(reqs[r])
  /\ reqs' = [reqs EXCEPT ![r] = NoRequest]
  /\ UNCHANGED notHttpVars

\* the transport of a session reports closure: onclose fires
TransportClose(t) ==
  /\ Flushed
  /\ tr[t].st = "open"
  /\ tr[t].sessionId # NULL
  /\ tr' = [tr EXCEPT ![t] = [@ EXCEPT !.st = "closed"]]
  /\ transports' = onclose(t)
  /\ last' = NoneFinished
  /\ UNCHANGED reqs
  /\ UNCHANGED notHttpVars

ResponseDelivered ==
  /\ ~Flushed
  /\ last' = NoneFinished
  /\ UNCHANGED <<transports, tr, reqs>>
  /\ UNCHANGED notHttpVars

HttpNext ==
  \/ \E r \in RequestIds : PostContinueStart(r)
  \/ \E r \in RequestIds : PostNewStart(r)
  \/ \E r \in RequestIds : SessionInit(r)
  \/ \E r \in RequestIds : PostFinishOk(r)
  \/ \E r \in RequestIds : PostFinishThrow(r)
  \/ RejectStart
  \/ \E r \in RequestIds : LookupStart(r)
  \/ \E r \in RequestIds : GetFinishOk(r)
  \/ \E r \in RequestIds : GetFinishThrow(r)
  \/ \E r \in RequestIds : DeleteFinishOk(r)
  \/ \E r \in RequestIds : DeleteFinishThrow(r)
  \/ \E t \in TransportIds : TransportClose(t)
  \/ ResponseDelivered

\* ------------------------------------------------------------ platforms

Platforms == {"pinotage", "merlot", "concord", "vidal", "zinfandel", "syrah"}

PLATFORM_BASE_URLS ==
  [p \in Platforms |->
     CASE p = "pinotage"  -> "https://pinotage-api.centrastage.net"
       [] p = "merlot"    -> "https://merlot-api.centrastage.net"
       [] p = "concord"   -> "https://concord-api.centrastage.net"
       [] p = "vidal"     -> "https://vidal-api.centrastage.net"
       [] p = "zinfandel" -> "https://zinfandel-api.centrastage.net"
       [] p = "syrah"     -> "https://syrah-api.centrastage.net"]

\* `${PLATFORM_BASE_URLS[p]}/api`
PLATFORM_URLS == [p \in Platforms |-> PLATFORM_BASE_URLS[p] \o "/api"]

getPlatformUrl(platform) == PLATFORM_URLS[platform]

\* mutant: the token endpoint is built on the API URL
getTokenEndpointUnderApi(platform) == PLATFORM_URLS[platform] \o "/auth/oauth/token"

\* `${PLATFORM_BASE_URLS[platform]}/auth/oauth/token`
getTokenEndpoint(platform) == PLATFORM_BASE_URLS[platform] \o "/auth/oauth/token"

NoStringCall == [arg |-> "none", ret |-> ""]

GetTokenEndpoint ==
  /\ \E p \in Platforms :
       endpointCall' = [arg |-> p, ret |-> getTokenEndpoint(p)]
  /\ UNCHANGED <<urlCall, pageCall>>
  /\ UNCHANGED notUtilVars

GetPlatformUrl ==
  /\ \E p \in Platforms :
       urlCall' = [arg |-> p, ret |-> getPlatformUrl(p)]
  /\ UNCHANGED <<endpointCall, pageCall>>
  /\ UNCHANGED notUtilVars

\* ----------------------------------------------------------- pagination

DEFAULT_PAGE_SIZE == 250

MAX_PAGE_SIZE == 250

\* an optional property of type number: undefined, or a number
Undefined == [def |-> FALSE, val |-> 0]

Num(n) == [def |-> TRUE, val |-> n]

\* values a caller may pass as page and as max
PageInputs == {-1, 0, 1, 2, 1000}

MaxInputs == {-1, 0, 1, 249, 250, 251, 1000}

\* params?: PaginationParams: no argument, or an object whose page and max
\* may each be missing
UndefinedParams == [given |-> FALSE, page |-> Undefined, max |-> Undefined]

ParamInputs ==
  {UndefinedParams} \cup
  [given : {TRUE},
   page : {Undefined} \cup {Num(n) : n \in PageInputs},
   max : {Undefined} \cup {Num(n) : n \in MaxInputs}]

\* params?.page, params?.max
OptionalChain(params, field) == IF params.given THEN params[field] ELSE Undefined

\* x ?? d
NullishCoalesce(x, d) == IF x.def THEN x.val ELSE d

\* Math.min(a, b)
MathMin(a, b) == IF a < b THEN a ELSE b

\* mutant: the page size is not clamped
normalizePaginationUnclamped(params) ==
  [page |-> NullishCoalesce(OptionalChain(params, "page"), 1),
   max |-> NullishCoalesce(OptionalChain(params, "max"), DEFAULT_PAGE_SIZE)]

normalizePagination(params) ==
  [page |-> NullishCoalesce(OptionalChain(params, "page"), 1),
   max |-> MathMin(NullishCoalesce(OptionalChain(params, "max"), DEFAULT_PAGE_SIZE),
                   MAX_PAGE_SIZE)]

NoPageCall == [called |-> FALSE, arg |-> UndefinedParams, ret |-> [page |-> 0, max |-> 0]]

NormalizePagination ==
  /\ \E params \in ParamInputs :
       pageCall' = [called |-> TRUE, arg |-> params, ret |-> normalizePagination(params)]
  /\ UNCHANGED <<endpointCall, urlCall>>
  /\ UNCHANGED notUtilVars

UtilInit ==
  /\ endpointCall = NoStringCall
  /\ urlCall = NoStringCall
  /\ pageCall = NoPageCall

UtilNext ==
  \/ GetTokenEndpoint
  \/ GetPlatformUrl
  \/ NormalizePagination

\* ------------------------------------------------------- specifications

Init == TokenInit /\ HttpInit /\ ClientInit /\ UtilInit

SpecToken == Init /\ [][TokenNext]_vars

SpecHttp == Init /\ [][HttpNext]_vars

SpecClient == Init /\ [][ClientNext]_vars

SpecUtil == Init /\ [][UtilNext]_vars

\* ------------------------------------------------- claims: token manager

\* C1 (single flight): a getToken() call d that finds no usable token while
\* an earlier such call c is still suspended starts no network call of its
\* own, is served by the one exchange c waits for (started by getToken), and
\* resolves to the same token or the same error as c.
SingleFlight ==
  \A d \in CallIds : \A c \in calls[d].pend :
    calls[d].e # NULL =>
      /\ ~calls[d].started
      /\ calls[d].e = calls[c].e
      /\ exch[calls[d].e].via = "getToken"
      /\ Cardinality({x \in CallIds : calls[x].e = calls[d].e /\ calls[x].started}) = 1
      /\ (calls[d].pc = "done" /\ calls[c].pc = "done" => calls[d].res = calls[c].res)

\* two overlapping calls have both resolved to the token of one exchange
WitnessSingleFlight ==
  \E d \in CallIds : \E c \in calls[d].pend :
    /\ calls[d].pc = "done" /\ calls[c].pc = "done"
    /\ calls[d].e # NULL
    /\ calls[d].res.kind = "tok"
    /\ calls[c].res = calls[d].res

\* C2 (invalidate then refetch): the first getToken() issued after
\* clearToken() returned starts a fresh token exchange.
InvalidateThenRefetch ==
  \A c \in CallIds : calls[c].postClear => calls[c].started

\* C3 (freshness): getToken() never resolves to a token whose expiresAt has
\* been reached, whatever ttl the server declared.
Freshness ==
  \A c \in CallIds :
    calls[c].pc = "done" /\ calls[c].res.kind = "tok" => ~calls[c].expired

\* C4 (failed refresh keeps the cache): no step of a refresh that fails (its
\* start, its failure, the initiator's resumption with the error) changes the
\* cached pair (token, expiresAt).
FailedRefreshKeepsCache ==
  [][ /\ \A e \in ExchangeIds :
           exch[e].st = "pending" /\ exch'[e].st = "failed" =>
             token' = token /\ expiresAt' = expiresAt
      /\ \A e \in ExchangeIds :
           exch[e].st = "unused" /\ exch'[e].st = "pending" =>
             token' = token /\ expiresAt' = expiresAt
      /\ \A c \in CallIds :
           calls[c].pc # "done" /\ calls'[c].pc = "done" /\ calls'[c].res.kind = "err" =>
             token' = token /\ expiresAt' = expiresAt
    ]_vars

\* a refresh has failed and reported its error while a token stays cached
WitnessFailedRefreshKeepsCache ==
  \E c \in CallIds :
    /\ calls[c].pc = "done" /\ calls[c].res.kind = "err"
    /\ exch[calls[c].e].st = "failed"
    /\ token # NULL /\ expiresAt > 0

\* C10 (refresh only when needed): a getToken() issued with a token cached
\* and now < expiresAt - 5 min returns that token at once and changes nothing
\* of the manager; one issued with no refresh in flight and no such token
\* starts exactly one token exchange.
RefreshOnlyWhenNeeded ==
  [][ \A c \in CallIds :
        calls[c].pc = "new" /\ calls'[c].pc # "new" =>
          IF token # NULL /\ now < expiresAt - 5 * 60 * 1000
          THEN /\ calls'[c].pc = "done"
               /\ calls'[c].res = [kind |-> "tok", val |-> token]
               /\ UNCHANGED <<token, expiresAt, refreshPromise, exch>>
          ELSE refreshPromise = NULL =>
               /\ Cardinality({e \in ExchangeIds :
                                 exch[e].st = "unused" /\ exch'[e].st = "pending"}) = 1
               /\ \A e \in ExchangeIds :
                    exch[e].st # "unused" => exch'[e] = exch[e]
    ]_vars

\* a token with ttl 3600 s was cached at time 0 and served from the cache;
\* the call at minute 56 has started a token exchange
WitnessRefreshOnlyWhenNeeded ==
  \E c, d \in CallIds :
    /\ calls[d].pc = "done" /\ calls[d].e = NULL /\ calls[d].res.kind = "tok"
    /\ calls[c].pc = "await" /\ calls[c].started
    /\ token # NULL /\ expiresAt = 3600 * 1000 /\ now = 56 * 60 * 1000

\* C11 (in-flight marker release): when the initiator of a refresh resumes,
\* whether the refresh succeeded or failed, refreshPromise is cleared; the
\* marker is set only for a refresh started by getToken() whose exchange is
\* outstanding or whose initiator has yet to resume; no getToken() receives
\* the outcome of a refresh that had settled when the call was issued, and a
\* call issued after a failed refresh has completed, with no usable token
\* cached and no later getToken() refresh in flight, starts a new exchange.
MarkerRelease ==
  /\ [](refreshPromise # NULL =>
          /\ exch[refreshPromise].via = "getToken"
          /\ \/ exch[refreshPromise].st = "pending"
             \/ \E c \in CallIds :
                  calls[c].pc = "await" /\ calls[c].e = refreshPromise)
  /\ [][ /\ \A c \in CallIds :
              calls[c].pc = "await" /\ calls'[c].pc = "done" =>
                refreshPromise' = NULL
         /\ \A c \in CallIds :
              calls[c].pc = "new" /\ calls'[c].pc # "new" /\ calls'[c].e # NULL =>
                exch[calls'[c].e].st \in {"unused", "pending"}
         /\ \A c \in CallIds :
              /\ calls[c].pc = "new" /\ calls'[c].pc # "new"
              /\ ~(token # NULL /\ now < expiresAt - 5 * 60 * 1000)
              /\ \E e \in ExchangeIds :
                   exch[e].st = "failed" /\ exch[e].via = "getToken"
              /\ \A e \in ExchangeIds :
                   exch[e].st = "pending" => exch[e].via = "direct"
              => /\ calls'[c].started
                 /\ exch[calls'[c].e].st = "unused"
                 /\ exch'[calls'[c].e].st = "pending"
     ]_vars

\* a refresh has failed and its error was delivered; a later getToken() has
\* started a second exchange and now awaits it
WitnessMarkerRelease ==
  \E c, d \in CallIds :
    /\ calls[c].pc = "done" /\ calls[c].res.kind = "err" /\ calls[c].started
    /\ calls[d].pc = "await" /\ calls[d].started /\ calls[d].e # calls[c].e
    /\ refreshPromise = calls[d].e
    /\ exch[refreshPromise].st = "pending"

\* C12 (a failed refresh leaves callers with a valid token served): a
\* getToken() issued while a token is cached and now < expiresAt resolves to
\* a token, never to an error, even when the refresh it starts or joins
\* fails.
ValidTokenCallersServed ==
  [][ \A c \in CallIds :
        /\ calls[c].pc # "done" /\ calls'[c].pc = "done"
        /\ IF calls[c].pc = "new" THEN token # NULL /\ now < expiresAt
           ELSE calls[c].hadToken
        => calls'[c].res.kind = "tok"
    ]_vars

\* C20 (clearToken frame): a clearToken() step sets token to null and
\* expiresAt to 0 and changes neither refreshPromise nor any exchange nor
\* any suspended call; an exchange that succeeds stores its token and
\* expiresAt = now + ttl * 1000, also when clearToken() ran while it was in
\* flight.
ClearTokenFrame ==
  [][ /\ (~afterClear /\ afterClear') \/ (token # NULL /\ token' = NULL) =>
           /\ token' = NULL
           /\ expiresAt' = 0
           /\ UNCHANGED <<refreshPromise, exch, calls, now>>
      /\ \A e \in ExchangeIds :
           exch[e].st = "pending" /\ exch'[e].st = "ok" =>
             /\ token' = e
             /\ \E ttl \in TTLs : expiresAt' = now + ttl * 1000
    ]_vars

\* clearToken() ran while a refresh started by getToken() was in flight, and
\* that refresh has since stored its token: the cache is populated again
\* although no getToken() was issued after the invalidation
WitnessClearTokenFrame ==
  /\ afterClear
  /\ token # NULL
  /\ exch[token].via = "getToken"
  /\ exch[token].st = "ok"
  /\ expiresAt > now

\* C21 (direct refresh), as stated: a direct refreshToken() starts one
\* exchange and leaves refreshPromise, the cache and every getToken() call
\* as they are; every exchange that succeeds stores its own token and
\* expiresAt = now + ttl * 1000 in that step, so the cache holds the result
\* of the exchange that completed last; and no step other than a successful
\* exchange writes token or expiresAt.
DirectRefresh ==
  [][ /\ \A e \in ExchangeIds :
           exch[e].st = "unused" /\ exch'[e].st = "pending" /\ exch'[e].via = "direct" =>
             /\ UNCHANGED <<refreshPromise, token, expiresAt, calls>>
             /\ \A f \in ExchangeIds \ {e} : exch'[f] = exch[f]
      /\ \A e \in ExchangeIds :
           exch[e].st = "pending" /\ exch'[e].st = "ok" =>
             /\ token' = e
             /\ \E ttl \in TTLs : expiresAt' = now + ttl * 1000
      /\ token' # token \/ expiresAt' # expiresAt =>
           \E e \in ExchangeIds : exch[e].st = "pending" /\ exch'[e].st = "ok"
    ]_vars

\* C21 (direct refresh), amended: as above, except that token and expiresAt
\* are written by a successful exchange or reset together to (null, 0) by
\* clearToken(), and by nothing else.
DirectRefreshOrClear ==
  [][ /\ \A e \in ExchangeIds :
           exch[e].st = "unused" /\ exch'[e].st = "pending" /\ exch'[e].via = "direct" =>
             /\ UNCHANGED <<refreshPromise, token, expiresAt, calls>>
             /\ \A f \in ExchangeIds \ {e} : exch'[f] = exch[f]
      /\ \A e \in ExchangeIds :
           exch[e].st = "pending" /\ exch'[e].st = "ok" =>
             /\ token' = e
             /\ \E ttl \in TTLs : expiresAt' = now + ttl * 1000
      /\ token' # token \/ expiresAt' # expiresAt =>
           \/ \E e \in ExchangeIds : exch[e].st = "pending" /\ exch'[e].st = "ok"
           \/ token' = NULL /\ expiresAt' = 0 /\ exch' = exch
    ]_vars

\* a direct refreshToken() ran while the refresh of a getToken() was in
\* flight; both succeeded and the cache holds the token of the getToken()
\* refresh, which started first and completed last
WitnessDirectRefreshOrClear ==
  /\ exch[1].via = "getToken" /\ exch[1].st = "ok"
  /\ exch[2].via = "direct" /\ exch[2].st = "ok"
  /\ token = 1
  /\ \E c \in CallIds : calls[c].pc = "done" /\ calls[c].res = [kind |-> "tok", val |-> 1]

\* ---------------------------------------------- claims: auth middleware

\* C13 (bounded auth retry): a call makes at most two backing requests; the
\* second is made only after an authentication rejection, with a token that
\* the getToken() issued after the invalidation obtained by starting a
\* refresh of its own; a second rejection ends the call with authExpired
\* and nothing else does.
BoundedAuthRetry ==
  /\ api.requests <= 2
  /\ api.rejections <= api.requests
  /\ api.requests = 2 => api.rejections >= 1 /\ api.started
  /\ api.result = "authExpired" <=> api.rejections = 2
  /\ api.pc = "done" <=> api.result # "none"

\* ------------------------------------------------ claims: /mcp sessions

ClientError(code) == code \in 400..499

\* C5 (unknown-session rejection): a request carrying an Mcp-Session-Id that
\* is not in the registry creates no transport and is answered with a client
\* error.
UnknownSessionRejected ==
  /\ \A r \in RequestIds :
       reqs[r].sess \in {"closed", "unknown"} => reqs[r].created = NULL
  /\ last.sess \in {"closed", "unknown"} => ClientError(last.status)

\* C6 (terminate): when a DELETE for a registered id has been handled, the id
\* is absent from the registry, whether the transport's handling succeeded
\* or threw.
TerminateRemoves ==
  [][ \A r \in RequestIds :
        /\ reqs[r].method = "DELETE" /\ reqs[r].sess = "known"
        /\ reqs[r].pc = "handling" /\ reqs'[r].pc = "idle"
        => ~MapHas(transports', reqs[r].hdr)
    ]_vars

\* C7 (close-triggered removal): the id of a session whose transport has
\* reported closure is not in the registry, and every request that arrives
\* with that id afterwards is answered with a client error.
ClosedSessionRejected ==
  /\ \A t \in TransportIds :
       tr[t].st = "closed" /\ tr[t].sessionId # NULL =>
         ~MapHas(transports, tr[t].sessionId)
  /\ \A r \in RequestIds :
       reqs[r].sess = "closed" /\ reqs[r].sent => ClientError(reqs[r].status)
  /\ last.sess = "closed" => ClientError(last.status)

\* C8 (session uniqueness): the sessions created have pairwise distinct ids,
\* and the id of every session not yet closed or terminated resolves in the
\* registry to that session's own transport.
SessionUniqueness ==
  /\ \A t, u \in TransportIds :
       t # u /\ tr[t].sessionId # NULL /\ tr[u].sessionId # NULL =>
         tr[t].sessionId # tr[u].sessionId
  /\ \A t \in TransportIds :
       tr[t].st = "open" /\ tr[t].sessionId # NULL =>
         /\ MapHas(transports, tr[t].sessionId)
         /\ transports[tr[t].sessionId] = t

\* every transport the bound allows holds a live session, created by
\* requests that were in flight together
WitnessSessionUniqueness ==
  /\ \A t \in TransportIds : tr[t].st = "open" /\ tr[t].sessionId # NULL
  /\ Cardinality(DOMAIN transports) = MaxTransports
  /\ Cardinality({r \in RequestIds : reqs[r].pc = "handling" /\ reqs[r].sent}) >= 2

\* C9 (removal idempotence): removing an id twice, or an id that is not
\* registered, equals removing it once and leaves every other entry as it
\* was; a DELETE that succeeds (onclose's removal, then the handler's own)
\* leaves the registry as one removal of its id does.
RemovalIdempotence ==
  /\ [](\A k \in SessionIds :
          /\ MapDelete(MapDelete(transports, k), k) = MapDelete(transports, k)
          /\ (~MapHas(transports, k) => MapDelete(transports, k) = transports)
          /\ \A j \in DOMAIN transports \ {k} :
               /\ MapHas(MapDelete(transports, k), j)
               /\ MapDelete(transports, k)[j] = transports[j])
  /\ [][ \A r \in RequestIds :
          /\ reqs[r].method = "DELETE"
          /\ reqs[r].pc = "handling" /\ reqs'[r].pc = "idle"
          /\ last'.status = 200
          => /\ DOMAIN transports' = DOMAIN transports \ {reqs[r].hdr}
             /\ \A j \in DOMAIN transports' : transports'[j] = transports[j]
     ]_vars

\* a DELETE has succeeded on a session (both removals ran) while another
\* session is still registered
WitnessRemovalIdempotence ==
  /\ last.method = "DELETE" /\ last.status = 200
  /\ \E t \in TransportIds : tr[t].st = "closed"
  /\ DOMAIN transports # {}

RegistryFrame ==
  [][ \A r \in RequestIds :
        /\ (reqs[r].created # NULL /\ ~reqs[r].sent /\ reqs'[r].sent) =>
             /\ transports' # transports
             /\ DOMAIN transports \subseteq DOMAIN transports'
        /\ ( /\ reqs[r].method = "DELETE" /\ reqs[r].sess = "known"
             /\ reqs[r].pc = "handling" /\ reqs'[r].pc = "idle" ) =>
             ~MapHas(transports', reqs[r].hdr)
        /\ ( /\ reqs[r].pc = "idle" /\ reqs'[r].pc = "handling"
             /\ reqs'[r].method \in {"POST", "GET"} /\ reqs'[r].sess = "known" ) =>
             /\ transports' = transports
             /\ \E id \in DOMAIN transports : transports[id] = reqs'[r].t
        /\ ( /\ reqs[r].pc = "handling" /\ reqs'[r].pc = "idle"
             /\ reqs[r].method \in {"POST", "GET"} /\ reqs[r].sess = "known" ) =>
             transports' = transports
    ]_vars

\* C17 (linearizable visibility): the step in which the initiating POST
\* starts its answer (the one that carries the id) leaves the id registered
\* for its transport, so the id of every session that was handed out and has
\* not been closed or terminated is found by a lookup; an id that has been
\* removed from the registry is never found again.
LinearizableVisibility ==
  /\ [](\A t \in TransportIds :
          tr[t].st = "open" /\ tr[t].sessionId # NULL =>
            /\ SessionOf(tr[t].sessionId) = "known"
            /\ transports[tr[t].sessionId] = t)
  /\ [][ /\ \A r \in RequestIds :
             reqs[r].created # NULL /\ ~reqs[r].sent /\ reqs'[r].sent =>
               /\ tr'[reqs[r].t].sessionId # NULL
               /\ MapHas(transports', tr'[reqs[r].t].sessionId)
               /\ transports'[tr'[reqs[r].t].sessionId] = reqs[r].t
         /\ \A id \in SessionIds :
             /\ \E t \in TransportIds : tr[t].sessionId = id
             /\ ~MapHas(transports, id)
             => ~MapHas(transports', id)
     ]_vars

\* a GET that carried the id of a removed session has been refused while
\* another session, created since, is registered and found
WitnessLinearizableVisibility ==
  /\ last.method = "GET" /\ last.sess = "closed" /\ last.status = 400
  /\ \E t \in TransportIds :
       /\ tr[t].st = "open" /\ tr[t].sessionId # NULL
       /\ KnownSession(tr[t].sessionId)

\* C19 (registry consistency): every key of the registry is bound to a
\* transport whose own sessionId is that key, no transport is stored under
\* two keys, and no transport whose onclose has fired is in the registry.
RegistryConsistency ==
  /\ \A id \in DOMAIN transports : tr[transports[id]].sessionId = id
  /\ \A i, j \in DOMAIN transports : i # j => transports[i] # transports[j]
  /\ \A id \in DOMAIN transports : tr[transports[id]].st # "closed"

\* one session has been closed and removed, another is registered and has a
\* request in progress
WitnessRegistryConsistency ==
  /\ Cardinality(DOMAIN transports) = 1
  /\ \E t \in TransportIds : tr[t].st = "closed" /\ tr[t].sessionId # NULL
  /\ \E r \in RequestIds : reqs[r].pc = "handling" /\ reqs[r].sess = "known"

\* --------------------------------------------------- claims: pure helpers

\* the token endpoints the tests of platforms.ts expect
ExpectedTokenEndpoints ==
  [p \in {"merlot", "pinotage", "syrah"} |->
     CASE p = "merlot"   -> "https://merlot-api.centrastage.net/auth/oauth/token"
       [] p = "pinotage" -> "https://pinotage-api.centrastage.net/auth/oauth/token"
       [] p = "syrah"    -> "https://syrah-api.centrastage.net/auth/oauth/token"]

\* C16 (token endpoint on the base domain): for each of the six platforms,
\* getTokenEndpoint(p) is PLATFORM_BASE_URLS[p] followed by
\* '/auth/oauth/token' (the literal the tests expect), and it does not start
\* with the API URL getPlatformUrl(p), which is the base followed by '/api'.
TokenEndpointOnBase ==
  /\ Cardinality(Platforms) = 6
  /\ endpointCall.arg # "none" =>
       /\ endpointCall.ret = PLATFORM_BASE_URLS[endpointCall.arg] \o "/auth/oauth/token"
       /\ endpointCall.arg \in DOMAIN ExpectedTokenEndpoints =>
            endpointCall.ret = ExpectedTokenEndpoints[endpointCall.arg]
       /\ SubSeq(endpointCall.ret, 1, Len(getPlatformUrl(endpointCall.arg)))
            # getPlatformUrl(endpointCall.arg)
  /\ urlCall.arg # "none" =>
       urlCall.ret = PLATFORM_BASE_URLS[urlCall.arg] \o "/api"

\* both functions were called for syrah: the endpoint of the source's example
WitnessTokenEndpointOnBase ==
  /\ endpointCall.arg = "syrah"
  /\ endpointCall.ret = "https://syrah-api.centrastage.net/auth/oauth/token"
  /\ urlCall.arg = "syrah"
  /\ urlCall.ret = "https://syrah-api.centrastage.net/api"

\* C18 (pagination defaults and clamp): normalizePagination returns the given
\* page, or 1 when no page is given, and min(m, 250) where m is the given
\* max, or 250 when no max is given; the returned max never exceeds 250.
PaginationNormalized ==
  pageCall.called =>
    LET a == pageCall.arg
        m == IF a.given /\ a.max.def THEN a.max.val ELSE 250
    IN /\ pageCall.ret.page = (IF a.given /\ a.page.def THEN a.page.val ELSE 1)
       /\ pageCall.ret.max = (IF m < 250 THEN m ELSE 250)
       /\ pageCall.ret.max <= 250

\* a max above the limit was given and no page: 250 and page 1 come back
WitnessPaginationNormalized ==
  /\ pageCall.called
  /\ pageCall.arg.given /\ ~pageCall.arg.page.def
  /\ pageCall.arg.max.def /\ pageCall.arg.max.val = 1000
  /\ pageCall.ret = [page |-> 1, max |-> 250]

====
